---------------------------- MODULE Spec2Model ----------------------------
(***************************************************************************)
(* Model of the content classifier (src/src/contentDetector.ts) and the    *)
(* Mermaid auto-fixer (src/src/mermaidFixer.ts).                           *)
(*                                                                         *)
(* A text is a sequence of characters; a character is a one-character      *)
(* string, except the backtick and the four invisible code points, which   *)
(* are written by their code points.     The regular expressions of the     *)
(* source are translated to matchers over such sequences: each matcher     *)
(* follows the leftmost match the JavaScript engine finds, with the        *)
(* greedy / lazy quantifiers of the source pattern.                        *)
(***************************************************************************)
EXTENDS Integers, Sequences, FiniteSets, TLC

VARIABLES
    source,     \* the text handed to the function under call
    isRaw,      \* the isRawMermaid flag handed to fixMermaidInDocument
    pc,         \* which call has returned: "input", "fixed", "refixed", "document", "detected"
    result,     \* the FixResult of the last fixer call
    again,      \* the FixResult of fixMermaidCode run on result.output
    detection,  \* the DetectionResult of detectContentType
    calls,      \* the calls made by the callers so far, each with what it returned
    markdownText,   \* App: the text of the editor
    debounceRef,    \* App: the timer that hands processedText to the renderer
    parsed,         \* App: the text last handed to marked.parse
    timers          \* App: the timers of the window that wait, each by its processedText

vars == <<source, isRaw, pc, result, again, detection,
          calls, markdownText, debounceRef, parsed, timers>>

\* what the fixer and classifier calls leave alone
shell == <<calls, markdownText, debounceRef, parsed, timers>>

-----------------------------------------------------------------------------
(* Characters *)

BOM  == "U+FEFF"
ZWSP == "U+200B"
ZWNJ == "U+200C"
ZWJ  == "U+200D"

NL    == "\n"
CR    == "\r"
TAB   == "\t"
SP    == " "
QUOTE == "\""
TICK  == "U+0060"   \* the backtick

UpperLetters == <<"A", "B", "C", "D", "E", "F", "G", "H", "I", "J", "K", "L", "M",
                  "N", "O", "P", "Q", "R", "S", "T", "U", "V", "W", "X", "Y", "Z">>
LowerLetters == <<"a", "b", "c", "d", "e", "f", "g", "h", "i", "j", "k", "l", "m",
                  "n", "o", "p", "q", "r", "s", "t", "u", "v", "w", "x", "y", "z">>
Digits == {"0", "1", "2", "3", "4", "5", "6", "7", "8", "9"}

Range(f) == {f[i] : i \in DOMAIN f}

\* String.prototype.toLowerCase on one character
LowerOf == [c \in Range(UpperLetters) |->
              LowerLetters[CHOOSE i \in 1..26 : UpperLetters[i] = c]]
toLowerCase(c) == IF c \in DOMAIN LowerOf THEN LowerOf[c] ELSE c
LowerText(s) == [i \in 1..Len(s) |-> toLowerCase(s[i])]

\* \w of the regular expressions
WordChars == Range(UpperLetters) \cup Range(LowerLetters) \cup Digits \cup {"_"}
\* \s of the regular expressions, and what String.prototype.trim removes
\* (U+FEFF is white space in ECMAScript; the zero-width characters are not)
WhiteSpace == {SP, TAB, NL, CR, BOM}
\* what . does not match, and what ^ / $ look at under the m flag
LineTerminators == {NL, CR}
Blank == {SP, TAB}

Min(S) == CHOOSE x \in S : \A y \in S : x <= y

\* text.substring from position from (1-based) to the end
From(s, from) == SubSeq(s, from, Len(s))

\* the literal w occurs in s at position p
At(s, p, w) ==
    /\ p >= 1
    /\ p + Len(w) - 1 <= Len(s)
    /\ \A i \in 1..Len(w) : s[p + i - 1] = w[i]

\* the literal w occurs in s at position p, under the i flag
AtIgnoreCase(s, p, w) ==
    /\ p >= 1
    /\ p + Len(w) - 1 <= Len(s)
    /\ \A i \in 1..Len(w) : toLowerCase(s[p + i - 1]) = toLowerCase(w[i])

\* the first position >= p whose character is not in class (Len(s)+1 if none):
\* where a greedy class* that starts at p stops
Skip(s, p, class) ==
    LET stops == {i \in p..Len(s) : s[i] \notin class}
    IN  IF stops = {} THEN Len(s) + 1 ELSE Min(stops)

\* the first position >= p whose character is in class (Len(s)+1 if none)
Find(s, p, class) ==
    LET hits == {i \in p..Len(s) : s[i] \in class}
    IN  IF hits = {} THEN Len(s) + 1 ELSE Min(hits)

\* ^ under the m flag
AtLineStart(s, p) == p = 1 \/ (p >= 2 /\ p <= Len(s) + 1 /\ s[p - 1] \in LineTerminators)
\* $ under the m flag
AtLineEnd(s, p) == p = Len(s) + 1 \/ (p >= 1 /\ p <= Len(s) /\ s[p] \in LineTerminators)
\* \b between s[p-1] and s[p]
WordBoundary(s, p) ==
    LET before == p >= 2 /\ p <= Len(s) + 1 /\ s[p - 1] \in WordChars
        after  == p >= 1 /\ p <= Len(s) /\ s[p] \in WordChars
    IN  before # after

-----------------------------------------------------------------------------
(* mermaidFixer.ts: fixMermaidCode *)

\* One entry of FixResult.fixes.  rule names the message, text the spelling
\* quoted in a capitalization message, count the number in a merge message.
Fix(rule, text, count) == [rule |-> rule, text |-> text, count |-> count]

InvisibleFix       == Fix("Removed invisible characters (BOM/zero-width)", <<>>, 0)
CapitalizationFix(from, to) == Fix("Fixed capitalization", from \o <<"-", ">">> \o to, 0)
TagFix(n)          == Fix("Moved tag: to same line as commit", <<>>, n)
TypeFix(n)         == Fix("Moved type: to same line as commit", <<>>, n)
WrapFix            == Fix("Auto-wrapped raw Mermaid in mermaid code fence", <<>>, 0)

\* Fix 0: code.replace(/^\uFEFF/, "") then code.replace(/[\u200B\u200C\u200D\uFEFF]/g, "")
ZeroWidth == {ZWSP, ZWNJ, ZWJ, BOM}
StripLeadingBOM(code) ==
    IF Len(code) >= 1 /\ code[1] = BOM THEN Tail(code) ELSE code
\* the character class holds the zero-width space only
StripZeroWidthSpaces(code) == SelectSeq(code, LAMBDA c : c # ZWSP)
StripZeroWidth(code) == SelectSeq(code, LAMBDA c : c \notin ZeroWidth)

\* the characters are removed and nothing is recorded
RemoveInvisibleSilently(st) ==
    [code |-> StripZeroWidth(StripLeadingBOM(st.code)), fixes |-> st.fixes]

RemoveInvisible(st) ==
    LET stripped == StripZeroWidth(StripLeadingBOM(st.code))
    IN  IF Len(stripped) # Len(st.code)
        THEN [code |-> stripped, fixes |-> Append(st.fixes, InvisibleFix)]
        ELSE [code |-> stripped, fixes |-> st.fixes]

\* The keyword patterns /^(\s*)(<variants of kw>)\b/im.  Every alternative of
\* group 2 is a case variant of kw and the i flag is set, so group 2 matches any
\* case variant.  The value is the position of group 2 in the leftmost match,
\* 0 when the pattern does not match.
KeywordAt(code, q, kw) ==
    AtIgnoreCase(code, q, kw) /\ WordBoundary(code, q + Len(kw))

LeftmostKeyword(code, starts) ==
    IF starts = {} THEN 0 ELSE Skip(code, Min(starts), WhiteSpace)

KeywordRegex(code, kw) ==
    LeftmostKeyword(code,
        {p \in 1..Len(code) :
            AtLineStart(code, p) /\ KeywordAt(code, Skip(code, p, WhiteSpace), kw)})

\* stateRegex carries (-v2)? before \b.  The suffix is optional and the keyword
\* ends in a word character while "-" is none, so the pattern matches exactly
\* where the keyword pattern without the suffix does, and "$1stateDiagram$3"
\* puts the suffix back as it was read: only group 2 is rewritten.
gitGraph        == <<"g", "i", "t", "G", "r", "a", "p", "h">>
sequenceDiagram == <<"s", "e", "q", "u", "e", "n", "c", "e", "D", "i", "a", "g", "r", "a", "m">>
classDiagram    == <<"c", "l", "a", "s", "s", "D", "i", "a", "g", "r", "a", "m">>
stateDiagram    == <<"s", "t", "a", "t", "e", "D", "i", "a", "g", "r", "a", "m">>
erDiagram       == <<"e", "r", "D", "i", "a", "g", "r", "a", "m">>

\* if (match && match[2] !== canonical) { code = code.replace(regex, "$1" + canonical);
\*                                        fixes.push(...) }       q: the position of match[2]
\* the replacement is written without "$1"
RewriteKeywordLosingIndent(st, canonical, q, matched) ==
    IF q # 0 /\ matched # canonical
    THEN [code  |-> canonical \o From(st.code, q + Len(canonical)),
          fixes |-> Append(st.fixes, CapitalizationFix(matched, canonical))]
    ELSE st

RewriteKeyword(st, canonical, q, matched) ==
    IF q # 0 /\ matched # canonical
    THEN [code  |-> SubSeq(st.code, 1, q - 1) \o canonical
                      \o From(st.code, q + Len(canonical)),
          fixes |-> Append(st.fixes, CapitalizationFix(matched, canonical))]
    ELSE st

MatchedKeyword(st, canonical, q) ==
    RewriteKeyword(st, canonical, q, SubSeq(st.code, q, q + Len(canonical) - 1))

\* Fix 1 to Fix 5: if (regex.test(code)) { const match = code.match(regex); ... }
FixCapitalization(st, canonical) ==
    MatchedKeyword(st, canonical, KeywordRegex(st.code, canonical))

\* Fix 1 .. Fix 5 in the order of the source
FixKeywords(st) ==
    FixCapitalization(
        FixCapitalization(
            FixCapitalization(
                FixCapitalization(
                    FixCapitalization(st, gitGraph),
                    sequenceDiagram),
                classDiagram),
            stateDiagram),
        erDiagram)

commitWord == <<"c", "o", "m", "m", "i", "t">>
mergeWord  == <<"m", "e", "r", "g", "e">>
tagWord    == <<"t", "a", "g", ":">>
typeWord   == <<"t", "y", "p", "e", ":">>

\* /^([ \t]*(?:commit|merge)[ \t]+.*)[\r\n]+([ \t]+tag:[ \t]+"[^"]*")/gm
tagFixRegex  == [heads |-> {commitWord, mergeWord}, clause |-> tagWord, quoted |-> TRUE]
\* /^([ \t]*commit[ \t]+.*)[\r\n]+([ \t]+type:[ \t]+\w+)/gm
typeFixRegex == [heads |-> {commitWord}, clause |-> typeWord, quoted |-> FALSE]

\* A match: group 1 is code[start .. lineEnd-1], group 2 without the blanks that
\* begin it is code[clause .. last]
NoMatch == [ok |-> FALSE, start |-> 0, lineEnd |-> 0, clause |-> 0, last |-> 0]

\* the value of the clause, from position v on: "[^"]*" or \w+.  [^"] matches
\* line terminators too, so a quoted value may run over several lines.
ClauseValue(code, regex, m, v) ==
    IF regex.quoted
    THEN IF v <= Len(code) /\ code[v] = QUOTE /\ Find(code, v + 1, {QUOTE}) <= Len(code)
         THEN [m EXCEPT !.last = Find(code, v + 1, {QUOTE})]
         ELSE NoMatch
    ELSE IF Skip(code, v, WordChars) > v
         THEN [m EXCEPT !.last = Skip(code, v, WordChars) - 1]
         ELSE NoMatch

\* the clause may stand at the start of its line
ClauseAtUnindented(code, regex, m, part, clause) ==
    IF /\ At(code, clause, regex.clause)
       /\ Skip(code, clause + Len(regex.clause), Blank) > clause + Len(regex.clause)
    THEN ClauseValue(code, regex, [m EXCEPT !.clause = clause],
                     Skip(code, clause + Len(regex.clause), Blank))
    ELSE NoMatch

\* ([ \t]+<clause>[ \t]+<value>) from position part on
ClauseAt(code, regex, m, part, clause) ==
    IF /\ clause > part
       /\ At(code, clause, regex.clause)
       /\ Skip(code, clause + Len(regex.clause), Blank) > clause + Len(regex.clause)
    THEN ClauseValue(code, regex, [m EXCEPT !.clause = clause],
                     Skip(code, clause + Len(regex.clause), Blank))
    ELSE NoMatch

\* [\r\n]+ from position lineEnd on, where the .* of group 1 stopped: . matches
\* no line terminator, so group 1 runs to the end of its line
LineBreakAt(code, regex, m, lineEnd, part) ==
    IF lineEnd <= Len(code)
    THEN ClauseAt(code, regex, [m EXCEPT !.lineEnd = lineEnd], part, Skip(code, part, Blank))
    ELSE NoMatch

\* [ \t]+.* from position a on, the position after the keyword
RestOfLineAt(code, regex, m, a, lineEnd) ==
    IF a <= Len(code) /\ code[a] \in Blank
    THEN LineBreakAt(code, regex, m, lineEnd, Skip(code, lineEnd, LineTerminators))
    ELSE NoMatch

\* (?:commit|merge) at position k
HeadAt(code, regex, m, k, heads) ==
    IF heads # {}
    THEN RestOfLineAt(code, regex, m, k + Len(CHOOSE h \in heads : TRUE),
                      Find(code, k + Len(CHOOSE h \in heads : TRUE), LineTerminators))
    ELSE NoMatch

IndentAt(code, regex, m, k) ==
    HeadAt(code, regex, m, k, {h \in regex.heads : At(code, k, h)})

\* the pattern tried at position i
MergeRegexAt(code, i, regex) ==
    IF AtLineStart(code, i)
    THEN IndentAt(code, regex, [NoMatch EXCEPT !.ok = TRUE, !.start = i], Skip(code, i, Blank))
    ELSE NoMatch

\* the leftmost of the matches
Leftmost(matches) ==
    IF matches = {}
    THEN NoMatch
    ELSE CHOOSE m \in matches : \A n \in matches : m.start <= n.start

Matches(tried) == Leftmost({m \in tried : m.ok})

\* regex.exec with lastIndex = from - 1: the leftmost match that starts at or after from
MergeRegexExec(code, from, regex) ==
    Matches({MergeRegexAt(code, i, regex) : i \in from..Len(code)})

\* regex.test(code) with lastIndex = 0
MergeRegexTest(code, regex) == MergeRegexExec(code, 1, regex).ok

\* code.replace(regex, (_, commitLine, part) => { count++; return `${commitLine} ${part.trim()}` })
\* on the text from position from on: every match, left to right, none overlapping.
\* Group 2 begins with blanks and ends with a quote or a word character, so
\* part.trim() is the text from clause to last.
\* the clause is put at the start of a line of its own
MergedLineKeepingBreak(code, from, m, rest) ==
    [code  |-> SubSeq(code, from, m.lineEnd - 1) \o <<NL>>
                   \o SubSeq(code, m.clause, m.last) \o rest.code,
     count |-> 1 + rest.count]

\* the clause is dropped with the line it stood on
MergedLineDroppingClause(code, from, m, rest) ==
    [code  |-> SubSeq(code, from, m.lineEnd - 1) \o rest.code,
     count |-> 1 + rest.count]

MergedLine(code, from, m, rest) ==
    [code  |-> SubSeq(code, from, m.lineEnd - 1) \o <<SP>>
                   \o SubSeq(code, m.clause, m.last) \o rest.code,
     count |-> 1 + rest.count]

RECURSIVE MergeReplace(_, _, _)
ReplaceMatch(code, from, regex, m) ==
    IF ~m.ok
    THEN [code |-> From(code, from), count |-> 0]
    ELSE MergedLine(code, from, m, MergeReplace(code, m.last + 1, regex))

MergeReplace(code, from, regex) ==
    ReplaceMatch(code, from, regex, MergeRegexExec(code, from, regex))

\* while (regex.test(code)) { regex.lastIndex = 0; code = code.replace(regex, ...) }
RECURSIVE MergeLoop(_, _, _)
\* the count of the last pass alone is kept
LoopPassForgetful(replaced, count, regex) ==
    MergeLoop(replaced.code, replaced.count, regex)

LoopPass(replaced, count, regex) ==
    MergeLoop(replaced.code, count + replaced.count, regex)

MergeLoop(code, count, regex) ==
    IF MergeRegexTest(code, regex)
    THEN LoopPass(MergeReplace(code, 1, regex), count, regex)
    ELSE [code |-> code, count |-> count]

\* if (count > 0) fixes.push(...)
ReportMerges(st, merged, regex) ==
    [code  |-> merged.code,
     fixes |-> IF merged.count > 0
               THEN Append(st.fixes, IF regex.quoted THEN TagFix(merged.count)
                                                     ELSE TypeFix(merged.count))
               ELSE st.fixes]

\* tagFixCount is declared outside the function: a call goes on counting from
\* where the call before it stopped
FixTagsCountingOn(st) ==
    LET last  == IF calls # <<>> /\ calls[Len(calls)].fn = "fixMermaidInDocument"
                 THEN SelectSeq(calls[Len(calls)].value.fixes,
                                LAMBDA f : f.rule = TagFix(0).rule)
                 ELSE <<>>
        count == IF last = <<>> THEN 0 ELSE last[1].count
    IN  ReportMerges(st, MergeLoop(st.code, count, tagFixRegex), tagFixRegex)

\* Fix 6
FixTags(st) == ReportMerges(st, MergeLoop(st.code, 0, tagFixRegex), tagFixRegex)

\* Fix 7
FixTypes(st) == ReportMerges(st, MergeLoop(st.code, 0, typeFixRegex), typeFixRegex)

\* return { output: code, fixes, wasModified: fixes.length > 0 }
FixResult(st) ==
    [output |-> st.code, fixes |-> st.fixes, wasModified |-> Len(st.fixes) > 0]

fixMermaidCode(src) ==
    FixResult(FixTypes(FixTags(FixKeywords(RemoveInvisible([code |-> src, fixes |-> <<>>])))))

-----------------------------------------------------------------------------
(* mermaidFixer.ts: fixMermaidInDocument *)

Max(S) == CHOOSE x \in S : \A y \in S : x >= y

fence       == <<TICK, TICK, TICK>>
mermaidTag  == <<"m", "e", "r", "m", "a", "i", "d">>
fenceOpen   == fence \o mermaidTag \o <<NL>>     \* "```mermaid\n"
fenceClose  == <<NL>> \o fence                   \* "\n```"

\* A match: group 1 is text[start .. body-1], group 2 text[body .. close-1],
\* group 3 text[close .. last]
NoBlock == [ok |-> FALSE, start |-> 0, body |-> 0, close |-> 0, last |-> 0]

\* the first position >= p where the literal w occurs (Len(s)+1 if none)
IndexOf(s, p, w) ==
    LET hits == {i \in p..Len(s) : At(s, i, w)}
    IN  IF hits = {} THEN Len(s) + 1 ELSE Min(hits)

\* ([\s\S]*?)(```) from position body on: the lazy body ends at the first fence
\* a fence that is never closed runs to the end of the text
BlockBodyAtUnclosed(text, i, body, close) ==
    IF close <= Len(text)
    THEN [ok |-> TRUE, start |-> i, body |-> body, close |-> close,
          last |-> close + Len(fence) - 1]
    ELSE [ok |-> TRUE, start |-> i, body |-> body, close |-> Len(text) + 1,
          last |-> Len(text)]

BlockBodyAt(text, i, body, close) ==
    IF close <= Len(text)
    THEN [ok |-> TRUE, start |-> i, body |-> body, close |-> close,
          last |-> close + Len(fence) - 1]
    ELSE NoBlock

\* \s*\n after the tag: \s* is greedy and \n must follow it, so group 1 ends at
\* the last newline of the white space that follows the tag
BlockOpeningAt(text, i, newlines) ==
    IF newlines # {}
    THEN BlockBodyAt(text, i, Max(newlines) + 1, IndexOf(text, Max(newlines) + 1, fence))
    ELSE NoBlock

\* /(```mermaid\s*\n)([\s\S]*?)(```)/gi tried at position i
mermaidBlockRegexAt(text, i) ==
    IF AtIgnoreCase(text, i, fence \o mermaidTag)
    THEN BlockOpeningAt(text, i,
            {n \in (i + Len(fence \o mermaidTag))
                       ..(Skip(text, i + Len(fence \o mermaidTag), WhiteSpace) - 1) :
                text[n] = NL})
    ELSE NoBlock

mermaidBlockRegexExec(text, from) ==
    Matches({mermaidBlockRegexAt(text, i) : i \in from..Len(text)})

\* What the callback of result.replace(mermaidBlockRegex, ...) returns for one
\* match: if (fixes.length > 0) return opening + output + closing; return fullMatch
BlockReplacementCanonicalFence(opening, code, closing, fixed) ==
    [text  |-> IF Len(fixed.fixes) > 0
               THEN fenceOpen \o fixed.output \o closing
               ELSE opening \o code \o closing,
     fixes |-> fixed.fixes]

BlockReplacement(opening, code, closing, fixed) ==
    [text  |-> IF Len(fixed.fixes) > 0
               THEN opening \o fixed.output \o closing
               ELSE opening \o code \o closing,
     fixes |-> fixed.fixes]

FixBlock(opening, code, closing) ==
    BlockReplacement(opening, code, closing, fixMermaidCode(code))

\* result.replace(mermaidBlockRegex, callback) on the text from position from on
\* the fixes of a block are put before those already collected
SplicedBlockLastFirst(text, from, m, block, rest) ==
    [text  |-> SubSeq(text, from, m.start - 1) \o block.text \o rest.text,
     fixes |-> rest.fixes \o block.fixes]

SplicedBlock(text, from, m, block, rest) ==
    [text  |-> SubSeq(text, from, m.start - 1) \o block.text \o rest.text,
     fixes |-> block.fixes \o rest.fixes]

RECURSIVE ReplaceBlocks(_, _)
ReplaceBlock(text, from, m) ==
    IF ~m.ok
    THEN [text |-> From(text, from), fixes |-> <<>>]
    ELSE SplicedBlock(text, from, m,
                      FixBlock(SubSeq(text, m.start, m.body - 1),
                               SubSeq(text, m.body, m.close - 1),
                               SubSeq(text, m.close, m.last)),
                      ReplaceBlocks(text, m.last + 1))

ReplaceBlocks(text, from) == ReplaceBlock(text, from, mermaidBlockRegexExec(text, from))

\* the isRawMermaid branch
WrappedResultIfFixed(fixed) ==
    [output      |-> fenceOpen \o fixed.output \o fenceClose,
     fixes       |-> <<WrapFix>> \o fixed.fixes,
     wasModified |-> Len(fixed.fixes) > 0]

\* no line feed is put between the tag and the code
WrappedResultNoBreak(fixed) ==
    [output      |-> fence \o mermaidTag \o fixed.output \o fenceClose,
     fixes       |-> <<WrapFix>> \o fixed.fixes,
     wasModified |-> TRUE]

WrappedResult(fixed) ==
    [output      |-> fenceOpen \o fixed.output \o fenceClose,
     fixes       |-> <<WrapFix>> \o fixed.fixes,
     wasModified |-> TRUE]

WrapRawMermaid(fullText) == WrappedResult(fixMermaidCode(fullText))

\* return { output: result, fixes: allFixes, wasModified: allFixes.length > 0 }
DocumentResult(replaced) ==
    [output      |-> replaced.text,
     fixes       |-> replaced.fixes,
     wasModified |-> Len(replaced.fixes) > 0]

fixMermaidInDocument(fullText, isRawMermaid) ==
    IF isRawMermaid
    THEN WrapRawMermaid(fullText)
    ELSE DocumentResult(ReplaceBlocks(fullText, 1))

-----------------------------------------------------------------------------
(* contentDetector.ts *)

MERMAID_KEYWORDS == <<
    <<"g", "r", "a", "p", "h">>,
    <<"f", "l", "o", "w", "c", "h", "a", "r", "t">>,
    <<"s", "e", "q", "u", "e", "n", "c", "e", "D", "i", "a", "g", "r", "a", "m">>,
    <<"c", "l", "a", "s", "s", "D", "i", "a", "g", "r", "a", "m">>,
    <<"s", "t", "a", "t", "e", "D", "i", "a", "g", "r", "a", "m">>,
    <<"s", "t", "a", "t", "e", "D", "i", "a", "g", "r", "a", "m", "-", "v", "2">>,
    <<"e", "r", "D", "i", "a", "g", "r", "a", "m">>,
    <<"j", "o", "u", "r", "n", "e", "y">>,
    <<"g", "a", "n", "t", "t">>,
    <<"p", "i", "e">>,
    <<"q", "u", "a", "d", "r", "a", "n", "t", "C", "h", "a", "r", "t">>,
    <<"r", "e", "q", "u", "i", "r", "e", "m", "e", "n", "t", "D", "i", "a", "g", "r", "a", "m">>,
    <<"g", "i", "t", "G", "r", "a", "p", "h">>,
    <<"m", "i", "n", "d", "m", "a", "p">>,
    <<"t", "i", "m", "e", "l", "i", "n", "e">>,
    <<"z", "e", "n", "u", "m", "l">>,
    <<"s", "a", "n", "k", "e", "y", "-", "b", "e", "t", "a">>,
    <<"x", "y", "c", "h", "a", "r", "t", "-", "b", "e", "t", "a">>,
    <<"b", "l", "o", "c", "k", "-", "b", "e", "t", "a">>,
    <<"p", "a", "c", "k", "e", "t", "-", "b", "e", "t", "a">>,
    <<"k", "a", "n", "b", "a", "n">>,
    <<"a", "r", "c", "h", "i", "t", "e", "c", "t", "u", "r", "e", "-", "b", "e", "t", "a">> >>

MERMAID_KEYWORDS_LOWER == [i \in DOMAIN MERMAID_KEYWORDS |-> LowerText(MERMAID_KEYWORDS[i])]

\* String.prototype.trim
trim(s) ==
    LET keep == {i \in 1..Len(s) : s[i] \notin WhiteSpace}
    IN  IF keep = {} THEN <<>> ELSE SubSeq(s, Min(keep), Max(keep))

\* text.split("\n")[0]
FirstLine(s) == SubSeq(s, 1, Find(s, 1, {NL}) - 1)

startsWith(s, w) == At(s, 1, w)

MISSPELLINGS == {
    <<"g", "i", "t", "g", "r", "a", "p", "h">>,
    <<"s", "e", "q", "u", "e", "n", "c", "e", "d", "i", "a", "g", "r", "a", "m">>,
    <<"c", "l", "a", "s", "s", "d", "i", "a", "g", "r", "a", "m">>,
    <<"s", "t", "a", "t", "e", "d", "i", "a", "g", "r", "a", "m">>,
    <<"e", "r", "d", "i", "a", "g", "r", "a", "m">> }

GRAPH_SP     == <<"g", "r", "a", "p", "h", " ">>
FLOWCHART_SP == <<"f", "l", "o", "w", "c", "h", "a", "r", "t", " ">>

\* the keyword is looked for at the start of the line, whatever follows it
looksLikeMermaidPrefix(text) ==
    LET trimmed   == trim(text)
        firstLine == LowerText(trim(FirstLine(trimmed)))
    IN  IF trimmed = <<>>
        THEN FALSE
        ELSE \E k \in DOMAIN MERMAID_KEYWORDS_LOWER :
                 startsWith(firstLine, MERMAID_KEYWORDS_LOWER[k])

looksLikeMermaid(text) ==
    LET trimmed   == trim(text)
        firstLine == LowerText(trim(FirstLine(trimmed)))
    IN  IF trimmed = <<>>
        THEN FALSE
        ELSE \/ \E k \in DOMAIN MERMAID_KEYWORDS_LOWER :
                   LET keyword == MERMAID_KEYWORDS_LOWER[k]
                   IN  \/ firstLine = keyword
                       \/ startsWith(firstLine, keyword \o <<SP>>)
                       \/ startsWith(firstLine, keyword \o <<TAB>>)
             \/ firstLine \in MISSPELLINGS
             \/ startsWith(firstLine, GRAPH_SP)
             \/ startsWith(firstLine, FLOWCHART_SP)

\* /```mermaid\s*\n/i.test(text)
containsMermaidBlocks(text) ==
    \E p \in 1..Len(text) :
        /\ AtIgnoreCase(text, p, fence \o mermaidTag)
        /\ LET ws == p + Len(fence) + Len(mermaidTag)
           IN  \E n \in ws..(Skip(text, ws, WhiteSpace) - 1) : text[n] = NL

\* text.match(/```mermaid/gi): the number of matches
countMermaidBlocks(text) ==
    Cardinality({p \in 1..Len(text) : AtIgnoreCase(text, p, fence \o mermaidTag)})

\* no line terminator in s[a..b]: what .+ and .* can run over
OneLine(s, a, b) == \A i \in a..b : s[i] \notin LineTerminators

\* opener, then at least least characters of one line, then closer; the first
\* closer that leaves room is the one a lazy or a greedy quantifier can settle on
\* if any can
Enclosed(s, p, opener, least, closer) ==
    LET a == IndexOf(s, p + Len(opener) + least, closer)
    IN  /\ At(s, p, opener)
        /\ a <= Len(s)
        /\ OneLine(s, p + Len(opener), a - 1)

CharAt(s, p, class) == p >= 1 /\ p <= Len(s) /\ s[p] \in class

\* /^#{1,6}\s/m
mdHeader(t) ==
    \E p \in 1..Len(t) :
        LET e == Skip(t, p, {"#"})
        IN  AtLineStart(t, p) /\ e > p /\ e - p <= 6 /\ CharAt(t, e, WhiteSpace)
\* /^\s*[-*+]\s/m
mdUnorderedList(t) ==
    \E p \in 1..Len(t) :
        LET q == Skip(t, p, WhiteSpace)
        IN  AtLineStart(t, p) /\ CharAt(t, q, {"-", "*", "+"}) /\ CharAt(t, q + 1, WhiteSpace)
\* /^\s*\d+\.\s/m
mdOrderedList(t) ==
    \E p \in 1..Len(t) :
        LET q == Skip(t, p, WhiteSpace)
            d == Skip(t, q, Digits)
        IN  AtLineStart(t, p) /\ d > q /\ CharAt(t, d, {"."}) /\ CharAt(t, d + 1, WhiteSpace)
\* /\[.+?\]\(.+?\)/
mdLink(t) ==
    \E p \in 1..Len(t) :
        /\ Enclosed(t, p, <<"[">>, 1, <<"]", "(">>)
        /\ LET a == IndexOf(t, p + 2, <<"]", "(">>)
           IN  Enclosed(t, a, <<"]", "(">>, 1, <<")">>)
\* /!\[.*?\]\(.+?\)/
mdImage(t) ==
    \E p \in 1..Len(t) :
        /\ Enclosed(t, p, <<"!", "[">>, 0, <<"]", "(">>)
        /\ LET a == IndexOf(t, p + 2, <<"]", "(">>)
           IN  Enclosed(t, a, <<"]", "(">>, 1, <<")">>)
\* /\*\*.+?\*\*/
mdBold(t) == \E p \in 1..Len(t) : Enclosed(t, p, <<"*", "*">>, 1, <<"*", "*">>)
\* /\*.+?\*/
mdItalic(t) == \E p \in 1..Len(t) : Enclosed(t, p, <<"*">>, 1, <<"*">>)
\* /~~.+?~~/
mdStrikethrough(t) == \E p \in 1..Len(t) : Enclosed(t, p, <<"~", "~">>, 1, <<"~", "~">>)
\* /^>\s/m
mdBlockquote(t) ==
    \E p \in 1..Len(t) : AtLineStart(t, p) /\ CharAt(t, p, {">"}) /\ CharAt(t, p + 1, WhiteSpace)
\* /\|.+\|.+\|/
mdTable(t) ==
    \E p \in 1..Len(t) :
        /\ Enclosed(t, p, <<"|">>, 1, <<"|">>)
        /\ Enclosed(t, IndexOf(t, p + 2, <<"|">>), <<"|">>, 1, <<"|">>)
\* /^---+$/m and /^===+$/m
mdRule(t, c) ==
    \E p \in 1..Len(t) :
        LET e == Skip(t, p, {c})
        IN  AtLineStart(t, p) /\ e - p >= 3 /\ AtLineEnd(t, e)
\* /```[\s\S]*?```/
mdCodeBlock(t) ==
    \E p \in 1..Len(t) : At(t, p, fence) /\ IndexOf(t, p + Len(fence), fence) <= Len(t)
\* /`[^`]+`/
mdInlineCode(t) ==
    \E p \in 1..Len(t) :
        /\ CharAt(t, p, {TICK})
        /\ p + 1 <= Len(t) /\ t[p + 1] # TICK
        /\ Find(t, p + 2, {TICK}) <= Len(t)
\* /^\s*- \[[ x]\]/m
mdTaskList(t) ==
    \E p \in 1..Len(t) :
        LET q == Skip(t, p, WhiteSpace)
        IN  /\ AtLineStart(t, p)
            /\ At(t, q, <<"-", SP, "[">>)
            /\ CharAt(t, q + 3, {SP, "x"})
            /\ CharAt(t, q + 4, {"]"})

\* mdPatterns, in the order of the source; matchCount >= 1
hasMarkdownFeatures(text) ==
    \/ mdHeader(text)
    \/ mdUnorderedList(text)
    \/ mdOrderedList(text)
    \/ mdLink(text)
    \/ mdImage(text)
    \/ mdBold(text)
    \/ mdItalic(text)
    \/ mdStrikethrough(text)
    \/ mdBlockquote(text)
    \/ mdTable(text)
    \/ mdRule(text, "-")
    \/ mdRule(text, "=")
    \/ mdCodeBlock(text)
    \/ mdInlineCode(text)
    \/ mdTaskList(text)

\* DetectionResult: the fields the core decides (the style tokens are constants
\* of the label)
Detection(type, label, count, wrapped, fixes) ==
    [type |-> type, label |-> label, mermaidBlockCount |-> count,
     wasAutoWrapped |-> wrapped, wasAutoFixed |-> FALSE, fixes |-> fixes]

AutoWrapNote == "Auto-wrapped in mermaid code fence"

\* Case 1: if (isRawMermaid && !hasMD && !hasMermaidBlocks)
IsRawCaseIgnoringProse(hasMD, hasMermaidBlocks, isRawMermaid) ==
    isRawMermaid /\ ~hasMermaidBlocks
IsRawCaseIgnoringFences(hasMD, hasMermaidBlocks, isRawMermaid) ==
    isRawMermaid /\ ~hasMD
IsRawCase(hasMD, hasMermaidBlocks, isRawMermaid) ==
    isRawMermaid /\ ~hasMD /\ ~hasMermaidBlocks

RawMermaidResultUncounted ==
    Detection("mermaid", "Raw Mermaid", 0, TRUE, <<AutoWrapNote>>)
RawMermaidResult ==
    Detection("mermaid", "Raw Mermaid", 1, TRUE, <<AutoWrapNote>>)

\* Case 2: if (hasMD && (hasMermaidBlocks || isRawMermaid))
IsMixedCaseFencedOnly(hasMD, hasMermaidBlocks, isRawMermaid) ==
    hasMD /\ hasMermaidBlocks
IsMixedCase(hasMD, hasMermaidBlocks, isRawMermaid) ==
    hasMD /\ (hasMermaidBlocks \/ isRawMermaid)

\* mermaidBlockCount: blockCount || (isRawMermaid ? 1 : 0)
MixedCount(blockCount, isRawMermaid) ==
    IF blockCount # 0 THEN blockCount ELSE IF isRawMermaid THEN 1 ELSE 0

DecideCountingEverywhere(hasMD, hasMermaidBlocks, isRawMermaid, blockCount) ==
    IF IsRawCase(hasMD, hasMermaidBlocks, isRawMermaid)
    THEN RawMermaidResult
    ELSE IF IsMixedCase(hasMD, hasMermaidBlocks, isRawMermaid)
    THEN Detection("mixed", "Markdown + Mermaid",
                   MixedCount(blockCount, isRawMermaid), FALSE, <<>>)
    ELSE IF hasMermaidBlocks /\ ~hasMD
    THEN Detection("mixed", "Fenced Mermaid", blockCount, FALSE, <<>>)
    ELSE IF hasMD /\ ~hasMermaidBlocks /\ ~isRawMermaid
    THEN Detection("markdown", "Markdown", blockCount, FALSE, <<>>)
    ELSE Detection("markdown", "Text", blockCount, FALSE, <<>>)

\* Case 1 .. Case 4 and the fallback, in the order of the source
Decide(hasMD, hasMermaidBlocks, isRawMermaid, blockCount) ==
    IF IsRawCase(hasMD, hasMermaidBlocks, isRawMermaid)
    THEN RawMermaidResult
    ELSE IF IsMixedCase(hasMD, hasMermaidBlocks, isRawMermaid)
    THEN Detection("mixed", "Markdown + Mermaid",
                   MixedCount(blockCount, isRawMermaid), FALSE, <<>>)
    ELSE IF hasMermaidBlocks /\ ~hasMD
    THEN Detection("mixed", "Fenced Mermaid", blockCount, FALSE, <<>>)
    ELSE IF hasMD /\ ~hasMermaidBlocks /\ ~isRawMermaid
    THEN Detection("markdown", "Markdown", 0, FALSE, <<>>)
    ELSE Detection("markdown", "Text", 0, FALSE, <<>>)

\* const trimmed = text.trim(); if (!trimmed) return { type: "empty", ... }
DetectTrimmed(trimmed) ==
    IF trimmed = <<>>
    THEN Detection("empty", "Empty", 0, FALSE, <<>>)
    ELSE Decide(hasMarkdownFeatures(trimmed),
                containsMermaidBlocks(trimmed),
                looksLikeMermaid(trimmed),
                countMermaidBlocks(trimmed))

\* the text is classified as it stands
detectContentTypeUntrimmed(text) == DetectTrimmed(text)

detectContentType(text) == DetectTrimmed(trim(text))

-----------------------------------------------------------------------------
(* Inputs *)

MaxSnippetPieces  == 3
MaxDocumentPieces == 3
MaxTextPieces     == 3

\* Lines of a diagram snippet (a commit line with and without text after the
\* keyword), a zero-width space and an empty line
SnippetPieces == {
    <<"g", "i", "t", "g", "r", "a", "p", "h", "\n">>,
    <<"g", "i", "t", "G", "r", "a", "p", "h", "\n">>,
    <<"c", "o", "m", "m", "i", "t", " ", "x", "\n">>,
    <<" ", " ", "t", "a", "g", ":", " ", "\"", "v", "\"", "\n">>,
    <<" ", " ", "t", "y", "p", "e", ":", " ", "X", "\n">>,
    <<"U+200B">>,
    <<"\n">>,
    <<"m", "e", "r", "g", "e", " ", "y", "\n">>,
    <<"c", "o", "m", "m", "i", "t", "\n">> }

\* Fenced blocks (a body that needs a fix, one that needs none, one under a
\* differently spelled opening), a block of another language, bare diagram
\* text, an opening fence alone and a heading
DocumentPieces == {
    <<"U+0060", "U+0060", "U+0060", "m", "e", "r", "m", "a", "i", "d", "\n", "g", "i", "t", "g", "r", "a", "p", "h", "\n", "U+0060", "U+0060", "U+0060", "\n">>,
    <<"U+0060", "U+0060", "U+0060", "m", "e", "r", "m", "a", "i", "d", "\n", "g", "i", "t", "G", "r", "a", "p", "h", "\n", "U+0060", "U+0060", "U+0060", "\n">>,
    <<"U+0060", "U+0060", "U+0060", "M", "e", "r", "m", "a", "i", "d", " ", "\n", "c", "o", "m", "m", "i", "t", " ", "x", "\n", " ", " ", "t", "a", "g", ":", " ", "\"", "v", "\"", "\n", "U+0060", "U+0060", "U+0060", "\n">>,
    <<"g", "i", "t", "g", "r", "a", "p", "h", "\n">>,
    <<"U+0060", "U+0060", "U+0060", "j", "s", "\n", "g", "i", "t", "g", "r", "a", "p", "h", "\n", "U+0060", "U+0060", "U+0060", "\n">>,
    <<"U+0060", "U+0060", "U+0060", "m", "e", "r", "m", "a", "i", "d", "\n">>,
    <<"#", " ", "T", "\n">> }

\* What the classifier tells apart: a keyword line, a diagram line, a heading,
\* fence lines, the fence and tag followed by more text, white space, plain text
TextPieces == {
    <<"g", "i", "t", "g", "r", "a", "p", "h", "\n">>,
    <<"c", "o", "m", "m", "i", "t", " ", "x", "\n">>,
    <<"#", " ", "T", "\n">>,
    <<"U+0060", "U+0060", "U+0060", "m", "e", "r", "m", "a", "i", "d", "\n">>,
    <<"U+0060", "U+0060", "U+0060", "\n">>,
    <<"U+0060", "U+0060", "U+0060", "m", "e", "r", "m", "a", "i", "d", " ", "x", "\n">>,
    <<" ">>,
    <<"\n">>,
    <<"h", "i", "\n">> }

\* every concatenation of at most n pieces
RECURSIVE Concats(_, _)
Concats(pieces, n) ==
    IF n = 0
    THEN {<<>>}
    ELSE LET shorter == Concats(pieces, n - 1)
         IN  shorter \cup {s \o p : s \in shorter, p \in pieces}

FixerInputs == Concats(SnippetPieces, MaxSnippetPieces)
                   \cup Concats(DocumentPieces, MaxDocumentPieces)
TextInputs  == Concats(TextPieces, MaxTextPieces)

MaxKeywordPieces == 3

\* First lines for the keyword rule (a keyword under other capitals, indented,
\* with text after it, canonical, with the -v2 suffix, as the beginning of a
\* longer word) and two invisible characters
KeywordPieces == {
    <<"g", "i", "t", "g", "r", "a", "p", "h", "\n">>,
    <<" ", " ", "G", "i", "t", "G", "r", "a", "p", "h", " ", "x", "\n">>,
    <<"g", "i", "t", "G", "r", "a", "p", "h", "\n">>,
    <<"\t", "S", "T", "A", "T", "E", "D", "I", "A", "G", "R", "A", "M", "-", "v", "2", "\n">>,
    <<"s", "e", "q", "u", "e", "n", "c", "e", "d", "i", "a", "g", "r", "a", "m", "\n">>,
    <<"C", "l", "a", "s", "s", "D", "i", "a", "g", "r", "a", "m", "\n">>,
    <<"E", "R", "D", "I", "A", "G", "R", "A", "M", "\n">>,
    <<"g", "i", "t", "g", "r", "a", "p", "h", "s", "\n">>,
    <<"U+200D">>,
    <<"U+FEFF">> }

KeywordInputs == Concats(KeywordPieces, MaxKeywordPieces)

MaxLinePieces == 3

\* First lines for looksLikeMermaid (a keyword alone, in capitals, followed by
\* a tab, by a letter, by a colon, by a hyphen, and the keyword that holds a
\* hyphen), white space, and fences for containsMermaidBlocks and
\* countMermaidBlocks (at the start of a line, in the middle of one, with text
\* after the tag, closing) and a heading
LinePieces == {
    <<"s", "t", "a", "t", "e", "D", "i", "a", "g", "r", "a", "m", "-", "v", "2", "\n">>,
    <<"g", "r", "a", "p", "h", "\t", "T", "D", "\n">>,
    <<"P", "I", "E", "\n">>,
    <<"g", "r", "a", "p", "h", "s", "\n">>,
    <<"p", "i", "e", ":", "\n">>,
    <<"g", "a", "n", "t", "t", "-", "x", "\n">>,
    <<"\n">>,
    <<" ">>,
    <<"x", " ", "U+0060", "U+0060", "U+0060", "m", "e", "r", "m", "a", "i", "d", "\n">>,
    <<"U+0060", "U+0060", "U+0060", "m", "e", "r", "m", "a", "i", "d", "\n">>,
    <<"U+0060", "U+0060", "U+0060", "m", "e", "r", "m", "a", "i", "d", " ", "x", "\n">>,
    <<"U+0060", "U+0060", "U+0060", "\n">>,
    <<"#", " ", "T", "\n">> }

LineInputs == Concats(LinePieces, MaxLinePieces)

MaxMergePieces == 3

\* Lines for the merge patterns: commit and merge lines with text after the
\* keyword, with a blank alone after it and with nothing after it, and clause
\* lines with and without indentation
MergePieces == {
    <<"c", "o", "m", "m", "i", "t", " ", "x", "\n">>,
    <<"c", "o", "m", "m", "i", "t", "\n">>,
    <<"c", "o", "m", "m", "i", "t", " ", "\n">>,
    <<"m", "e", "r", "g", "e", " ", "y", "\n">>,
    <<"m", "e", "r", "g", "e", "\n">>,
    <<" ", " ", "t", "a", "g", ":", " ", "\"", "v", "\"", "\n">>,
    <<"t", "a", "g", ":", " ", "\"", "v", "\"", "\n">>,
    <<"\t", "t", "y", "p", "e", ":", " ", "X", "\n">>,
    <<"t", "y", "p", "e", ":", " ", "X", "\n">> }

MergeInputs == Concats(MergePieces, MaxMergePieces)

-----------------------------------------------------------------------------
(* The calls *)

NoResult    == [output |-> <<>>, fixes |-> <<>>, wasModified |-> FALSE]
NoDetection == Detection("none", "", 0, FALSE, <<>>)
\* debounceRef.current: no timer is waiting / a timer waits with the text md
NoTimer     == [pending |-> FALSE, md |-> <<>>]
\* nothing has been handed to marked.parse yet
NotParsed   == <<"none">>

Idle ==
    /\ isRaw = FALSE
    /\ pc = "input"
    /\ result = NoResult
    /\ again = NoResult
    /\ detection = NoDetection
    /\ calls = <<>>
    /\ markdownText = <<>>
    /\ debounceRef = NoTimer
    /\ parsed = NotParsed
    /\ timers = {}

\* fixMermaidCode(source)
CallFixMermaidCode ==
    /\ pc = "input"
    /\ result' = fixMermaidCode(source)
    /\ pc' = "fixed"
    /\ UNCHANGED <<source, isRaw, again, detection, shell>>

\* fixMermaidCode on the output of the call before
CallFixMermaidCodeAgain ==
    /\ pc = "fixed"
    /\ again' = fixMermaidCode(result.output)
    /\ pc' = "refixed"
    /\ UNCHANGED <<source, isRaw, result, detection, shell>>

\* fixMermaidInDocument(source, isRawMermaid)
CallFixMermaidInDocument(isRawMermaid) ==
    /\ pc = "input"
    /\ isRaw' = isRawMermaid
    /\ result' = fixMermaidInDocument(source, isRawMermaid)
    /\ pc' = "document"
    /\ UNCHANGED <<source, again, detection, shell>>

\* detectContentType(source)
CallDetectContentType ==
    /\ pc = "input"
    /\ detection' = detectContentType(source)
    /\ pc' = "detected"
    /\ UNCHANGED <<source, isRaw, result, again, shell>>

InitFixer == source \in FixerInputs /\ Idle
NextFixer ==
    \/ CallFixMermaidCode
    \/ CallFixMermaidCodeAgain
    \/ \E isRawMermaid \in BOOLEAN : CallFixMermaidInDocument(isRawMermaid)
SpecFixer == InitFixer /\ [][NextFixer]_vars

InitDetect == source \in TextInputs /\ Idle
NextDetect == CallDetectContentType
SpecDetect == InitDetect /\ [][NextDetect]_vars

\* detectContentType on first lines and fences
InitLines == source \in LineInputs /\ Idle
SpecLines == InitLines /\ [][NextDetect]_vars

\* fixMermaidCode on the first lines of a snippet
InitKeyword == source \in KeywordInputs /\ Idle
NextKeyword == CallFixMermaidCode
SpecKeyword == InitKeyword /\ [][NextKeyword]_vars

\* fixMermaidCode on commit, merge and clause lines
InitMerge == source \in MergeInputs /\ Idle
SpecMerge == InitMerge /\ [][NextKeyword]_vars

-----------------------------------------------------------------------------
(* Several callers.  Both functions are synchronous, so a call runs from its
   first statement to its return with no other call in between; the callers
   take turns in any order.  Neither module keeps a variable outside its
   functions that a call writes: the patterns are literals evaluated inside the
   call and the counters are declared inside it (mermaidFixer.ts lines 23-24,
   87-88, 104-105, 131-132, 148; contentDetector.ts lines 87, 94-110, 124), and
   MERMAID_KEYWORDS_LOWER is computed once and only read. *)

MaxCalls == 2

\* the empty text, text with no keyword and no fence, a fence that is never
\* closed, a block with an empty body, a fence whose tag is followed by text, a
\* block with a tag line to merge, a bare diagram
CallerTexts == {
    <<>>,
    <<"h", "i", "\n">>,
    <<"U+0060", "U+0060", "U+0060", "m", "e", "r", "m", "a", "i", "d", "\n", "g", "i", "t", "g", "r", "a", "p", "h", "\n">>,
    <<"U+0060", "U+0060", "U+0060", "m", "e", "r", "m", "a", "i", "d", "\n", "U+0060", "U+0060", "U+0060", "\n">>,
    <<"U+0060", "U+0060", "U+0060", "m", "e", "r", "m", "a", "i", "d", " ", "g", "i", "t", "g", "r", "a", "p", "h", "\n", "U+0060", "U+0060", "U+0060", "\n">>,
    <<"U+0060", "U+0060", "U+0060", "m", "e", "r", "m", "a", "i", "d", "\n", "c", "o", "m", "m", "i", "t", " ", "x", "\n", " ", " ", "t", "a", "g", ":", " ", "\"", "v", "\"", "\n", "U+0060", "U+0060", "U+0060", "\n">>,
    <<"g", "i", "t", "g", "r", "a", "p", "h", "\n">> }

Call(fn, text, flag, value) == [fn |-> fn, text |-> text, flag |-> flag, value |-> value]

\* a caller calls detectContentType(text)
CallerDetects(text) ==
    /\ Len(calls) < MaxCalls
    /\ calls' = Append(calls, Call("detectContentType", text, FALSE, detectContentType(text)))
    /\ UNCHANGED <<source, isRaw, pc, result, again, detection,
                   markdownText, debounceRef, parsed, timers>>

\* a caller calls fixMermaidInDocument(text, isRawMermaid)
CallerFixes(text, isRawMermaid) ==
    /\ Len(calls) < MaxCalls
    /\ calls' = Append(calls, Call("fixMermaidInDocument", text, isRawMermaid,
                                   fixMermaidInDocument(text, isRawMermaid)))
    /\ UNCHANGED <<source, isRaw, pc, result, again, detection,
                   markdownText, debounceRef, parsed, timers>>

InitCallers == source = <<>> /\ Idle
NextCallers ==
    \/ \E text \in CallerTexts : CallerDetects(text)
    \/ \E text \in CallerTexts, isRawMermaid \in BOOLEAN : CallerFixes(text, isRawMermaid)
SpecCallers == InitCallers /\ [][NextCallers]_vars

-----------------------------------------------------------------------------
(* App.tsx: the editor, the two memoized calls and the debounced parse *)

\* sampleMarkdown, reduced to what the classifier and the fixer tell apart in
\* it: a heading and a fenced diagram
sampleMarkdown == <<"#", " ", "T", "\n", "U+0060", "U+0060", "U+0060", "m", "e", "r", "m", "a", "i", "d", "\n", "g", "i", "t", "G", "r", "a", "p", "h", "\n", "U+0060", "U+0060", "U+0060", "\n">>

\* what the user may leave in the editor
EditorTexts == {
    sampleMarkdown,
    <<>>,
    <<"g", "i", "t", "g", "r", "a", "p", "h", "\n">>,
    <<"g", "i", "t", "G", "r", "a", "p", "h", "\n">>,
    <<"g", "i", "t", "g", "r", "a", "p", "h", "\n", "c", "o", "m", "m", "i", "t", " ", "x", "\n">>,
    <<"#", " ", "T", "\n">>,
    <<"h", "i", "\n">>,
    <<"#", " ", "T", "\n", "g", "i", "t", "g", "r", "a", "p", "h", "\n">>,
    <<"g", "i", "t", "g", "r", "a", "p", "h", "\n", "#", " ", "T", "\n">>,
    <<"U+0060", "U+0060", "U+0060", "m", "e", "r", "m", "a", "i", "d", "\n", "g", "i", "t", "g", "r", "a", "p", "h", "\n", "U+0060", "U+0060", "U+0060", "\n">>,
    <<"U+0060", "U+0060", "U+0060", "m", "e", "r", "m", "a", "i", "d", "\n", "g", "i", "t", "G", "r", "a", "p", "h", "\n", "U+0060", "U+0060", "U+0060", "\n">>,
    <<"#", " ", "T", "\n", "U+0060", "U+0060", "U+0060", "m", "e", "r", "m", "a", "i", "d", "\n", "g", "i", "t", "g", "r", "a", "p", "h", "\n", "U+0060", "U+0060", "U+0060", "\n">>,
    <<"U+0060", "U+0060", "U+0060", "m", "e", "r", "m", "a", "i", "d", "\n">> }

\* useMemo(..., [markdownText, detection.type]): the value is computed anew
\* when one of the two differs from what it was at the render before
fixResultDepsTypeOnly(prevText, prevType, text, type) == prevType # type
fixResultDeps(prevText, prevType, text, type) == prevText # text \/ prevType # type

\* the flag is set for whatever is not plain markdown
fixResultOfAnyDiagram(text, type) ==
    IF fixResultDeps(markdownText, detection.type, text, type)
    THEN fixMermaidInDocument(text, type # "markdown")
    ELSE result

\* fixResult of the render with the text and its detection
fixResultOf(text, type) ==
    IF fixResultDeps(markdownText, detection.type, text, type)
    THEN fixMermaidInDocument(text, type = "mermaid")
    ELSE result

\* the effect on [processedText, parseMarkdown]: it runs when processedText is
\* not what it was at the render before, clears the timer and sets a new one
DebounceOf(processedText) ==
    IF processedText # result.output
    THEN [pending |-> TRUE, md |-> processedText]
    ELSE debounceRef

\* the timer the ref holds is left waiting
clearTimeoutNever(ref, waiting) == waiting

\* if (debounceRef.current) clearTimeout(debounceRef.current): the timer the
\* ref holds waits no more; clearing a timer that has run does nothing
clearTimeout(ref, waiting) ==
    IF ref.pending THEN waiting \ {ref.md} ELSE waiting

\* one render: detection, fixResult, processedText and the effects after it
Render(text, detected, fixed) ==
    /\ markdownText' = text
    /\ detection' = detected
    /\ result' = fixed
    /\ debounceRef' = DebounceOf(fixed.output)
    /\ timers' = IF fixed.output # result.output
                 THEN clearTimeout(debounceRef, timers) \cup {fixed.output}
                 ELSE timers

RenderWith(text, detected) == Render(text, detected, fixResultOf(text, detected.type))

\* onChange={(e) => setMarkdownText(e.target.value)} and the render it causes;
\* setting the text the editor has already is no change of state
OnChange(text) ==
    /\ text # markdownText
    /\ RenderWith(text, detectContentType(text))
    /\ UNCHANGED <<source, isRaw, pc, again, calls, parsed>>

\* the timer set 120 ms ago runs: parseMarkdown(processedText), with the
\* processedText of the render that set it
TimerFires ==
    \E md \in timers :
        /\ parsed' = md
        /\ timers' = timers \ {md}
        /\ debounceRef' = IF debounceRef.md = md
                          THEN [debounceRef EXCEPT !.pending = FALSE]
                          ELSE debounceRef
        /\ UNCHANGED <<source, isRaw, pc, result, again, detection, calls, markdownText>>

\* the first render, of useState(sampleMarkdown)
Mounted(detected) ==
    /\ markdownText = sampleMarkdown
    /\ detection = detected
    /\ result = fixMermaidInDocument(sampleMarkdown, detected.type = "mermaid")
    /\ debounceRef = [pending |-> TRUE, md |-> result.output]
    /\ timers = {result.output}
    /\ parsed = NotParsed

InitShell ==
    /\ source = <<>> /\ isRaw = FALSE /\ pc = "input" /\ again = NoResult /\ calls = <<>>
    /\ Mounted(detectContentType(sampleMarkdown))
NextShell ==
    \/ \E text \in EditorTexts : OnChange(text)
    \/ TimerFires
SpecShell == InitShell /\ [][NextShell]_vars

\* window.setTimeout(..., 120): a timer that is not cleared runs 120 ms after it
\* was set, so a timer cannot wait for ever
SpecShellFair == SpecShell /\ WF_vars(TimerFires)

-----------------------------------------------------------------------------
(* Properties of the fixer, checked under SpecFixer *)

\* C1: fixMermaidCode is idempotent: running it on its own output changes
\* nothing more, fixMermaidCode(fixMermaidCode(x).output).output =
\* fixMermaidCode(x).output.
C1_FixOneIdempotent ==
    pc = "refixed" => again.output = result.output

\* the delimited diagram blocks of a text, in document order
RECURSIVE BlocksFrom(_, _)
BlocksFrom(text, from) ==
    LET m == mermaidBlockRegexExec(text, from)
    IN  IF m.ok THEN <<m>> \o BlocksFrom(text, m.last + 1) ELSE <<>>

BodyOf(text, m) == SubSeq(text, m.body, m.close - 1)

\* the body is not what the fixer would return for it
NeedsFix(code) == fixMermaidCode(code).output # code

\* out, from position q on, is text, from position p on, with nothing changed but
\* the bodies of the delimited diagram blocks that need a fix: each stretch
\* outside a body (prose, the opening fence line, the closing fence) is there
\* character by character, and so is every body that needs no fix.
RECURSIVE FramePreserved(_, _, _, _)
FramePreserved(text, p, out, q) ==
    LET m == mermaidBlockRegexExec(text, p)
    IN  IF ~m.ok
        THEN From(out, q) = From(text, p)
        ELSE LET b == q + (m.body - p)      \* where the body begins in out
             IN  /\ b - 1 <= Len(out)
                 /\ SubSeq(out, q, b - 1) = SubSeq(text, p, m.body - 1)
                 /\ \E n \in 0..(Len(out) - b + 1) :
                        /\ ~NeedsFix(BodyOf(text, m)) =>
                               SubSeq(out, b, b + n - 1) = BodyOf(text, m)
                        /\ SubSeq(out, b + n, b + n + Len(fence) - 1) = fence
                        /\ FramePreserved(text, m.last + 1, out, b + n + Len(fence))

\* C8: fixMermaidInDocument(t, true) returns the opening fence line with the
\* mermaid tag, then fixMermaidCode(t).output, then a newline and the closing
\* fence; its fixes are the wrap message followed by the fixes of
\* fixMermaidCode(t) in their order; wasModified is true.
C8_WrapRawMermaid ==
    (pc = "document" /\ isRaw) =>
        /\ result.output =
               <<TICK, TICK, TICK, "m", "e", "r", "m", "a", "i", "d", NL>>
                   \o fixMermaidCode(source).output \o <<NL, TICK, TICK, TICK>>
        /\ result.fixes = <<WrapFix>> \o fixMermaidCode(source).fixes
        /\ result.wasModified

\* the text is wrapped although fixMermaidCode found nothing to fix in it
C8_Witness ==
    /\ pc = "document" /\ isRaw
    /\ source # <<>>
    /\ fixMermaidCode(source).fixes = <<>>
    /\ result.wasModified

\* C9: fixMermaidInDocument(t, false) leaves every character outside the bodies
\* of the delimited diagram blocks as it is, leaves every block whose body needs
\* no fix as it is, and returns t itself when no block needs a fix.
C9_DocumentFrame ==
    (pc = "document" /\ ~isRaw) =>
        /\ FramePreserved(source, 1, result.output, 1)
        /\ (\A i \in DOMAIN BlocksFrom(source, 1) :
                ~NeedsFix(BodyOf(source, BlocksFrom(source, 1)[i])))
              => result.output = source

\* a heading, then a block that is left alone, then a block that is rewritten
C9_Witness ==
    /\ pc = "document" /\ ~isRaw
    /\ result.output # source
    /\ LET blocks == BlocksFrom(source, 1)
       IN  /\ Len(blocks) >= 2
           /\ blocks[1].start > 1
           /\ ~NeedsFix(BodyOf(source, blocks[1]))
           /\ NeedsFix(BodyOf(source, blocks[2]))

\* C10: for fixMermaidCode and for fixMermaidInDocument, wasModified, "the
\* output differs from the input" and "fixes is not empty" are equivalent; for
\* fixMermaidInDocument(t, false) they hold exactly when some block changed.
Agree(input, r) ==
    /\ r.wasModified <=> (r.output # input)
    /\ r.wasModified <=> (r.fixes # <<>>)

C10_ModifiedAgrees ==
    /\ pc \in {"fixed", "document"} => Agree(source, result)
    /\ pc = "refixed" => Agree(result.output, again)
    /\ (pc = "document" /\ ~isRaw) =>
           (result.wasModified <=>
                \E i \in DOMAIN BlocksFrom(source, 1) :
                    NeedsFix(BodyOf(source, BlocksFrom(source, 1)[i])))

\* a document none of whose blocks needs a fix, with a block in it
C10_Witness ==
    /\ pc = "document" /\ ~isRaw
    /\ BlocksFrom(source, 1) # <<>>
    /\ ~result.wasModified
    /\ result.output = source

-----------------------------------------------------------------------------
(* Properties of the classifier, checked under SpecDetect *)

\* C2: detectContentType returns type "mermaid" if and only if the trimmed text
\* is not empty, looksLikeMermaid holds of it, hasMarkdownFeatures does not and
\* containsMermaidBlocks does not.
C2_DiagramIff ==
    pc = "detected" =>
        (detection.type = "mermaid" <=>
            /\ trim(source) # <<>>
            /\ looksLikeMermaid(trim(source))
            /\ ~hasMarkdownFeatures(trim(source))
            /\ ~containsMermaidBlocks(trim(source)))

C2_Witness ==
    /\ pc = "detected"
    /\ detection.type = "mermaid"
    /\ looksLikeMermaid(source)

\* C3: detectContentType returns type "empty" if and only if the trimmed text is
\* empty, and then mermaidBlockCount is 0 and fixes is empty.
C3_EmptyIff ==
    pc = "detected" =>
        /\ detection.type = "empty" <=> trim(source) = <<>>
        /\ detection.type = "empty" =>
               detection.mermaidBlockCount = 0 /\ detection.fixes = <<>>

\* a text of white space only
C3_Witness ==
    /\ pc = "detected"
    /\ source # <<>>
    /\ detection.type = "empty"

\* C4: for a text that is not empty and not classified "mermaid", the type is
\* "mixed" exactly when containsMermaidBlocks holds or hasMarkdownFeatures and
\* looksLikeMermaid both hold, and "markdown" otherwise.
C4_MixedOrProse ==
    (pc = "detected" /\ trim(source) # <<>> /\ detection.type # "mermaid") =>
        /\ detection.type \in {"mixed", "markdown"}
        /\ detection.type = "mixed" <=>
               \/ containsMermaidBlocks(trim(source))
               \/ hasMarkdownFeatures(trim(source)) /\ looksLikeMermaid(trim(source))

\* "mixed" through the bare-diagram heuristic alone
C4_Witness ==
    /\ pc = "detected"
    /\ detection.type = "mixed"
    /\ ~containsMermaidBlocks(trim(source))

\* C5: whenever detectContentType returns type "mermaid", mermaidBlockCount is 1
\* and fixes holds the one entry that announces the fence wrapping.
C5_DiagramCountsOne ==
    (pc = "detected" /\ detection.type = "mermaid") =>
        /\ detection.mermaidBlockCount = 1
        /\ detection.fixes = <<AutoWrapNote>>

C5_Witness ==
    /\ pc = "detected"
    /\ detection.type = "mermaid"
    /\ detection.wasAutoWrapped
    /\ Len(detection.fixes) = 1

\* C6 as stated: mermaidBlockCount is 0 whenever detectContentType returns type
\* "mermaid".
C6_DiagramCountsZero ==
    (pc = "detected" /\ detection.type = "mermaid") =>
        detection.mermaidBlockCount = 0

\* C6 as amended: whenever detectContentType returns type "mermaid",
\* mermaidBlockCount is 1 although the text holds no delimited diagram block.
C6_DiagramCountsImplicitBlock ==
    (pc = "detected" /\ detection.type = "mermaid") =>
        /\ ~containsMermaidBlocks(trim(source))
        /\ detection.mermaidBlockCount = 1

C6_Witness ==
    /\ pc = "detected"
    /\ detection.type = "mermaid"
    /\ detection.mermaidBlockCount # 0
    /\ countMermaidBlocks(trim(source)) = 0

\* C7: mermaidBlockCount > 0 only with type "mixed" or "mermaid": a result of
\* type "markdown" or "empty" has mermaidBlockCount 0, also when the text holds
\* the fence and the tag with no newline after them.
C7_CountOnlyWithDiagram ==
    pc = "detected" =>
        /\ detection.mermaidBlockCount > 0 => detection.type \in {"mixed", "mermaid"}
        /\ detection.type \in {"markdown", "empty"} => detection.mermaidBlockCount = 0

\* the fence and the tag occur, with more text after them on the line
C7_Witness ==
    /\ pc = "detected"
    /\ detection.type = "markdown"
    /\ countMermaidBlocks(trim(source)) > 0
    /\ detection.mermaidBlockCount = 0

-----------------------------------------------------------------------------
(* Properties of the keyword rule and of the invisible-character rule,
   checked under SpecKeyword *)

Canonical == {gitGraph, sequenceDiagram, classDiagram, stateDiagram, erDiagram}

\* the text without its invisible characters, which is what the keyword rule reads
Visible(text) == SelectSeq(text, LAMBDA c : c \notin {BOM, ZWSP, ZWNJ, ZWJ})

\* the first line of a text, and the text from the end of its first line on
LineOne(text) == SubSeq(text, 1, Find(text, 1, {NL, CR}) - 1)
AfterLineOne(text) == From(text, Find(text, 1, {NL, CR}))

\* the position after the blanks that indent the first line
Indented(text) == Skip(text, 1, {SP, TAB})

\* kw, under any capitals, is the whole word the first line begins with
BeginsWith(text, kw) ==
    LET q == Indented(text)
        e == q + Len(kw)
    IN  /\ e - 1 <= Len(text)
        /\ LowerText(SubSeq(text, q, e - 1)) = LowerText(kw)
        /\ (e > Len(text) \/ text[e] \notin WordChars)

Spelling(text, kw) == SubSeq(text, Indented(text), Indented(text) + Len(kw) - 1)

\* the capitalization entries of fixes that name kw as the canonical spelling
CapitalizationsTo(fixes, kw) ==
    SelectSeq(fixes, LAMBDA f :
        /\ f.rule = "Fixed capitalization"
        /\ Len(f.text) = 2 * Len(kw) + 2
        /\ From(f.text, Len(kw) + 3) = kw)

C12_OnlyFirstLineRewritten ==
    (/\ pc = "fixed"
     /\ \A i \in DOMAIN result.fixes :
            result.fixes[i].rule \in {"Fixed capitalization", InvisibleFix.rule})
        => AfterLineOne(result.output) = AfterLineOne(Visible(source))

-----------------------------------------------------------------------------
(* Properties of the merge rules, checked under SpecFixer *)

\* a line begins at p and, after its blanks, begins with the whole word w
LineOf(text, p, w) ==
    LET q == Skip(text, p, {SP, TAB})
        e == q + Len(w)
    IN  /\ p = 1 \/ (p >= 2 /\ p <= Len(text) /\ text[p - 1] \in {NL, CR})
        /\ e - 1 <= Len(text)
        /\ SubSeq(text, q, e - 1) = w
        /\ (e > Len(text) \/ text[e] \notin WordChars)

\* where the line after the line that begins at p begins: behind one line break
\* (0 when the text ends first)
NextLine(text, p) ==
    LET e == Find(text, p, {NL, CR})
    IN  IF e > Len(text) THEN 0
        ELSE IF text[e] = CR /\ e < Len(text) /\ text[e + 1] = NL THEN e + 2
        ELSE e + 1

\* an indented line begins at p and holds a tag clause: tag: and a quoted value
TagLine(text, p) ==
    LET q == Skip(text, p, {SP, TAB})
        v == Skip(text, q + 4, {SP, TAB})
    IN  /\ p >= 1 /\ q > p
        /\ q + 3 <= Len(text) /\ SubSeq(text, q, q + 3) = <<"t", "a", "g", ":">>
        /\ v > q + 4 /\ v <= Len(text) /\ text[v] = QUOTE
        /\ \E c \in (v + 1)..Len(text) : text[c] = QUOTE

\* an indented line begins at p and holds a type clause: type: and a word
TypeLine(text, p) ==
    LET q == Skip(text, p, {SP, TAB})
        v == Skip(text, q + 5, {SP, TAB})
    IN  /\ p >= 1 /\ q > p
        /\ q + 4 <= Len(text) /\ SubSeq(text, q, q + 4) = <<"t", "y", "p", "e", ":">>
        /\ v > q + 5 /\ v <= Len(text) /\ text[v] \in WordChars

\* C13: the text fixMermaidCode returns holds no commit line and no merge line
\* that is directly followed by an indented line with a tag clause.
C13_NoTagPairLeft ==
    pc = "fixed" =>
        \A p \in 1..Len(result.output) :
            (LineOf(result.output, p, commitWord) \/ LineOf(result.output, p, mergeWord))
                => ~TagLine(result.output, NextLine(result.output, p))

\* the lines of a text that are indented lines with a tag clause / a type clause
TagLines(text) ==
    {p \in 1..Len(text) : (p = 1 \/ text[p - 1] \in {NL, CR}) /\ TagLine(text, p)}
TypeLines(text) ==
    {p \in 1..Len(text) : (p = 1 \/ text[p - 1] \in {NL, CR}) /\ TypeLine(text, p)}

EntriesOf(fixes, rule) == SelectSeq(fixes, LAMBDA f : f.rule = rule)

\* how many lines of the kind the call merged: those the input had on a line of
\* their own and the output has not
Merged(before, after) == Cardinality(before) - Cardinality(after)

\* the rule reports nothing when it merged nothing, and else one entry with
\* the number of lines it merged
Reported(entries, rule, merged) ==
    IF merged = 0 THEN entries = <<>>
    ELSE entries = <<[rule |-> rule, text |-> <<>>, count |-> merged]>>

\* C14: one fixMermaidCode call reports the tag merges in at most one entry,
\* whose count is the number of tag lines merged in all passes of the loop
\* together; the same holds for the type merges.
C14_MergeCounts ==
    pc = "fixed" =>
        /\ Reported(EntriesOf(result.fixes, "Moved tag: to same line as commit"),
                    "Moved tag: to same line as commit",
                    Merged(TagLines(Visible(source)), TagLines(result.output)))
        /\ Reported(EntriesOf(result.fixes, "Moved type: to same line as commit"),
                    "Moved type: to same line as commit",
                    Merged(TypeLines(Visible(source)), TypeLines(result.output)))

\* two tag lines after one commit line: the second is merged in a second pass
C14_Witness ==
    /\ pc = "fixed"
    /\ Cardinality(TagLines(source)) = 2
    /\ TagLines(result.output) = {}
    /\ \E i \in DOMAIN result.fixes :
           result.fixes[i].rule = "Moved tag: to same line as commit"
               /\ result.fixes[i].count = 2

-----------------------------------------------------------------------------
(* The invisible-character rule, checked under SpecKeyword *)

Invisible == {"U+FEFF", "U+200B", "U+200C", "U+200D"}

InvisibleIn(text) == {i \in 1..Len(text) : text[i] \in Invisible}

\* C15: the text fixMermaidCode returns holds no U+FEFF, U+200B, U+200C or
\* U+200D, and fixes holds the invisible-character entry once when the input
\* held at least one of them, however many, and not at all when it held none.
C15_InvisibleStripped ==
    pc = "fixed" =>
        /\ InvisibleIn(result.output) = {}
        /\ EntriesOf(result.fixes, "Removed invisible characters (BOM/zero-width)") =
               IF InvisibleIn(source) = {} THEN <<>>
               ELSE <<[rule  |-> "Removed invisible characters (BOM/zero-width)",
                       text  |-> <<>>,
                       count |-> 0]>>

\* a byte-order mark at the start and two more invisible characters further on
C15_Witness ==
    /\ pc = "fixed"
    /\ Cardinality(InvisibleIn(source)) = 3
    /\ source[1] = "U+FEFF"
    /\ \E i \in DOMAIN source : source[i] = "U+200D"
    /\ Len(result.output) = Len(source) - 3
    /\ Len(result.fixes) = 1

-----------------------------------------------------------------------------
(* Properties of the calls, checked under SpecCallers *)

IsText(x) == DOMAIN x = 1..Len(x)

\* a FixResult: output a text, fixes a list, wasModified a boolean
WellFormedFix(r) ==
    /\ DOMAIN r = {"output", "fixes", "wasModified"}
    /\ IsText(r.output)
    /\ IsText(r.fixes)
    /\ r.wasModified \in BOOLEAN

\* a DetectionResult: one of the four types, a label, a count, two booleans
\* and a list of fixes
WellFormedDetection(d) ==
    /\ DOMAIN d = {"type", "label", "mermaidBlockCount", "wasAutoWrapped",
                   "wasAutoFixed", "fixes"}
    /\ d.type \in {"markdown", "mermaid", "mixed", "empty"}
    /\ d.label # ""
    /\ d.mermaidBlockCount \in Nat
    /\ d.wasAutoWrapped \in BOOLEAN
    /\ d.wasAutoFixed \in BOOLEAN
    /\ IsText(d.fixes)

\* how often the fence occurs in the text
Fences(text) ==
    {i \in 1..(Len(text) - 2) : SubSeq(text, i, i + 2) = <<"U+0060", "U+0060", "U+0060">>}

\* no rule has anything to match: the text holds no fence at all or one fence
\* that is never closed, or no delimited diagram block, or only blocks with an
\* empty body
NothingToFix(text) ==
    \/ Cardinality(Fences(text)) <= 1
    \/ \A i \in DOMAIN BlocksFrom(text, 1) : BodyOf(text, BlocksFrom(text, 1)[i]) = <<>>

\* C16: detectContentType and fixMermaidInDocument return a well-formed result
\* for every text and both values of the flag, and fixMermaidInDocument(t, false)
\* returns t itself, no fixes and wasModified false when no rule has anything
\* to match in t.
C16_Total ==
    \A i \in DOMAIN calls :
        /\ calls[i].fn = "detectContentType" => WellFormedDetection(calls[i].value)
        /\ calls[i].fn = "fixMermaidInDocument" =>
               /\ WellFormedFix(calls[i].value)
               /\ (~calls[i].flag /\ NothingToFix(calls[i].text)) =>
                      calls[i].value =
                          [output |-> calls[i].text, fixes |-> <<>>, wasModified |-> FALSE]

\* the empty text has been classified, and a text with one fence that is never
\* closed has been handed to the fixer and come back as it was
C16_Witness ==
    /\ Len(calls) = 2
    /\ calls[1].fn = "detectContentType" /\ calls[1].text = <<>>
    /\ calls[2].fn = "fixMermaidInDocument" /\ ~calls[2].flag
    /\ Cardinality(Fences(calls[2].text)) = 1
    /\ calls[2].value.output = calls[2].text

\* the same call made with no call before it
Isolated(call) ==
    IF call.fn = "detectContentType"
    THEN detectContentType(call.text)
    ELSE fixMermaidInDocument(call.text, call.flag)

-----------------------------------------------------------------------------
(* Properties of the shell, checked under SpecShell *)

\* the fixer wrapped the text in a fence: the wrap entry is the first of fixes
\* and the output begins with the opening fence line
Wrapped(r) ==
    /\ r.fixes # <<>>
    /\ r.fixes[1].rule = "Auto-wrapped raw Mermaid in mermaid code fence"
    /\ Len(r.output) >= 11
    /\ SubSeq(r.output, 1, 11) =
           <<"U+0060", "U+0060", "U+0060", "m", "e", "r", "m", "a", "i", "d", "\n">>

\* C18: after every change of the text, detection is the classification of the
\* text the editor holds now, fixResult is what fixMermaidInDocument returns for
\* that same text with the flag (detection.type = "mermaid"), so it is wrapped
\* exactly when the text is classified "mermaid"; the text that waits for the
\* renderer, and the text the renderer got once no timer waits, is the output
\* of that fixResult, never one computed for an older text.
C18_Pipeline ==
    /\ detection = detectContentType(markdownText)
    /\ result = fixMermaidInDocument(markdownText,
                                     detectContentType(markdownText).type = "mermaid")
    /\ Wrapped(result) <=> detectContentType(markdownText).type = "mermaid"
    /\ debounceRef.pending => debounceRef.md = result.output
    /\ ~debounceRef.pending => parsed = result.output

\* the renderer holds the output for a fenced diagram, the user has put a bare
\* diagram in the editor, and the wrapped text waits for the renderer
C18_Witness ==
    /\ parsed # NotParsed
    /\ ~Wrapped([output |-> parsed, fixes |-> <<>>])
    /\ markdownText # sampleMarkdown
    /\ detection.type = "mermaid"
    /\ debounceRef.pending
    /\ debounceRef.md = result.output
    /\ Wrapped(result)

-----------------------------------------------------------------------------
(* The type rule, checked under SpecFixer *)

\* the lines that begin with the word w and are directly followed by an
\* indented line with a type clause
TypeAfter(text, w) ==
    {p \in 1..Len(text) : LineOf(text, p, w) /\ TypeLine(text, NextLine(text, p))}

\* C19: a type clause on the line after a commit line is appended to the commit
\* line, so the text fixMermaidCode returns holds no commit line directly
\* followed by a type clause line; a type clause on the line after a merge line
\* stays on its line.
C19_TypeAfterCommitOnly ==
    pc = "fixed" =>
        /\ TypeAfter(result.output, commitWord) = {}
        /\ Cardinality(TypeAfter(result.output, mergeWord))
               >= Cardinality(TypeAfter(Visible(source), mergeWord))

-----------------------------------------------------------------------------
(* The order of fixes, checked under SpecFixer *)

\* the place of a rule in the order the rules are applied in
RuleOrder(rule) ==
    CASE rule = "Removed invisible characters (BOM/zero-width)" -> 1
      [] rule = "Fixed capitalization"                          -> 2
      [] rule = "Moved tag: to same line as commit"             -> 3
      [] rule = "Moved type: to same line as commit"            -> 4
      [] OTHER                                                  -> 0

InRuleOrder(fixes) ==
    /\ \A i \in DOMAIN fixes : RuleOrder(fixes[i].rule) > 0
    /\ \A i, j \in DOMAIN fixes :
           i < j => RuleOrder(fixes[i].rule) <= RuleOrder(fixes[j].rule)

\* the fixes of the blocks, block after block in document order
RECURSIVE FixesOfBlocks(_, _)
FixesOfBlocks(text, blocks) ==
    IF blocks = <<>> THEN <<>>
    ELSE fixMermaidCode(BodyOf(text, Head(blocks))).fixes
             \o FixesOfBlocks(text, Tail(blocks))

\* C20: the fixes of one fixMermaidCode call stand in the order of the rules
\* (invisible characters, capitalization, tag merge, type merge);
\* fixMermaidInDocument(t, true) puts the wrap entry first and the entries of
\* fixMermaidCode behind it; fixMermaidInDocument(t, false) lists the entries
\* of the blocks in document order, those of one block together.
C20_FixOrder ==
    /\ pc = "fixed" => InRuleOrder(result.fixes)
    /\ (pc = "document" /\ isRaw) =>
           /\ result.fixes[1].rule = "Auto-wrapped raw Mermaid in mermaid code fence"
           /\ InRuleOrder(Tail(result.fixes))
    /\ (pc = "document" /\ ~isRaw) =>
           result.fixes = FixesOfBlocks(source, BlocksFrom(source, 1))

\* a block with a tag line to merge stands before a block with a keyword to
\* rewrite: the tag entry comes first, against the order of the rules
C20_Witness ==
    /\ pc = "document" /\ ~isRaw
    /\ Len(BlocksFrom(source, 1)) = 2
    /\ Len(result.fixes) = 2
    /\ result.fixes[1].rule = "Moved tag: to same line as commit"
    /\ result.fixes[2].rule = "Fixed capitalization"

-----------------------------------------------------------------------------
(* Properties of the three signals of the classifier, checked under SpecLines *)

Spaces == {" ", "\t", "\n", "\r", "U+FEFF"}

\* the first line of the text that holds more than white space, without the
\* white space around it and in lower case (empty when there is none)
FirstWrittenLine(text) ==
    LET written == {i \in 1..Len(text) : text[i] \notin Spaces}
        first   == Min(written)
        onLine  == {i \in written : \A j \in first..i : text[j] # "\n"}
    IN  IF written = {} THEN <<>>
        ELSE LowerText(SubSeq(text, first, Max(onLine)))

\* the line is the keyword, or the keyword, a space or a tab, and more
KeywordLine(line, keyword) ==
    \/ line = keyword
    \/ /\ Len(line) > Len(keyword)
       /\ SubSeq(line, 1, Len(keyword)) = keyword
       /\ line[Len(keyword) + 1] \in {" ", "\t"}

\* C21: looksLikeMermaid holds exactly when the first line that holds more than
\* white space, trimmed and in lower case, is a keyword in lower case or begins
\* with one that a space or a tab follows; a keyword followed by another
\* character gives false unless the longer word is a keyword too.
C21_LooksLikeMermaid ==
    pc = "detected" =>
        (looksLikeMermaid(source) <=>
            \E k \in DOMAIN MERMAID_KEYWORDS :
                KeywordLine(FirstWrittenLine(source), LowerText(MERMAID_KEYWORDS[k])))

\* after an empty line the text begins with graphs: the keyword graph with a
\* letter behind it
C21_Witness ==
    /\ pc = "detected"
    /\ source # <<>>
    /\ source[1] = "\n"
    /\ FirstWrittenLine(source) = <<"g", "r", "a", "p", "h", "s">>
    /\ ~looksLikeMermaid(source)
    /\ detection.type = "markdown"

\* the positions of text where the fence and the tag stand, in any case
Openers(text) ==
    {p \in 1..Len(text) :
        AtIgnoreCase(text, p, <<"U+0060", "U+0060", "U+0060", "m", "e", "r", "m", "a", "i", "d">>)}

\* white space only, with a line feed in it, stands behind the opener at p
ClosedByNewline(text, p) ==
    \E n \in (p + 10)..Len(text) :
        /\ text[n] = "\n"
        /\ \A j \in (p + 10)..n : text[j] \in Spaces

\* the opener at p is the first thing on its line
StartsLine(text, p) == p = 1 \/ text[p - 1] = "\n"

\* C22: containsMermaidBlocks holds only if a fence at the start of a line is
\* followed at once by the tag, in any case, and then by a line feed; a fence
\* and tag in the middle of a line do not make it hold.
C22_FenceAtLineStart ==
    pc = "detected" =>
        (containsMermaidBlocks(trim(source)) =>
            \E p \in Openers(trim(source)) :
                StartsLine(trim(source), p) /\ ClosedByNewline(trim(source), p))

\* C23: when the type is mixed and containsMermaidBlocks holds, mermaidBlockCount
\* is the number of fence openers that pass the test of containsMermaidBlocks;
\* an opener with other characters behind the tag on its line is not counted.
C23_CountsDelimitedOpeners ==
    (pc = "detected" /\ detection.type = "mixed" /\ containsMermaidBlocks(trim(source))) =>
        detection.mermaidBlockCount =
            Cardinality({p \in Openers(trim(source)) : ClosedByNewline(trim(source), p)})

-----------------------------------------------------------------------------
(* The conditions of the merge rules, checked under SpecFixer *)

\* the commit and merge lines of a text whose next line is a clause line
ClauseAfter(text) ==
    {p \in 1..Len(text) :
        /\ LineOf(text, p, commitWord) \/ LineOf(text, p, mergeWord)
        /\ TagLine(text, NextLine(text, p)) \/ TypeLine(text, NextLine(text, p))}

MergeEntries(fixes) ==
    EntriesOf(fixes, "Moved tag: to same line as commit")
        \o EntriesOf(fixes, "Moved type: to same line as commit")

\* C24: fixMermaidCode merges a tag or type clause only when its line is the
\* line after the commit or merge line: when no clause line of the input
\* directly follows such a line (empty lines lie between), the clause lines
\* stay where they are and no merge is reported.
C24_MergeOnlyAdjacent ==
    (pc = "fixed" /\ ClauseAfter(Visible(source)) = {}) =>
        /\ MergeEntries(result.fixes) = <<>>
        /\ Cardinality(TagLines(result.output)) = Cardinality(TagLines(Visible(source)))
        /\ Cardinality(TypeLines(result.output)) = Cardinality(TypeLines(Visible(source)))

\* the text the tag loop starts on, and the text the type loop starts on
BeforeTags(src) == FixKeywords(RemoveInvisible([code |-> src, fixes |-> <<>>])).code
BeforeTypes(src) == FixTags(FixKeywords(RemoveInvisible([code |-> src, fixes |-> <<>>]))).code

LineBreaks(text) == Cardinality({i \in 1..Len(text) : text[i] \in {"\n", "\r"}})

\* the loop on code ends within the given number of passes, and every pass
\* that finds a match leaves fewer line breaks than it found
RECURSIVE EndsWithin(_, _, _)
EndsWithin(code, regex, passes) ==
    \/ ~MergeRegexTest(code, regex)
    \/ /\ passes > 0
       /\ LineBreaks(MergeReplace(code, 1, regex).code) < LineBreaks(code)
       /\ EndsWithin(MergeReplace(code, 1, regex).code, regex, passes - 1)

MergeCount(fixes) ==
    IF fixes = <<>> THEN 0 ELSE fixes[1].count + (IF Len(fixes) > 1 THEN fixes[2].count ELSE 0)

\* C25: the tag loop and the type loop of fixMermaidCode end for every input:
\* every pass that finds a match leaves fewer line breaks in the text, so a
\* loop makes at most as many passes as the input has line breaks.
C25_LoopsEnd ==
    pc = "fixed" =>
        /\ EndsWithin(BeforeTags(source), tagFixRegex, LineBreaks(source))
        /\ EndsWithin(BeforeTypes(source), typeFixRegex, LineBreaks(source))
        /\ LineBreaks(result.output) + MergeCount(MergeEntries(result.fixes))
               <= LineBreaks(source)

\* the tag loop made two passes: the first left a pair that the second merged
C25_Witness ==
    /\ pc = "fixed"
    /\ MergeRegexTest(BeforeTags(source), tagFixRegex)
    /\ MergeRegexTest(MergeReplace(BeforeTags(source), 1, tagFixRegex).code, tagFixRegex)
    /\ LineBreaks(result.output) = LineBreaks(source) - 2

-----------------------------------------------------------------------------
(* What fixMermaidCode keeps, checked under SpecFixer *)

\* the text without white space and invisible characters, in lower case
Content(text) ==
    LowerText(SelectSeq(text, LAMBDA c : c \notin Spaces /\ c \notin Invisible))

\* C26: fixMermaidCode deletes, adds and reorders no visible content: input and
\* output are equal when compared without regard to case after all white space
\* and all invisible characters are removed from both.
C26_ContentKept ==
    pc = "fixed" => Content(result.output) = Content(source)

\* a keyword was rewritten and a clause merged
C26_Witness ==
    /\ pc = "fixed"
    /\ Len(result.fixes) = 2
    /\ MergeEntries(result.fixes) # <<>>
    /\ result.fixes[1].rule = "Fixed capitalization"
    /\ result.output # Visible(source)
    /\ Content(result.output) = Content(source)

-----------------------------------------------------------------------------
(* The wrapped text classified again, checked under SpecFixer *)

\* C27: the text fixMermaidInDocument(t, true) returns is classified as mixed
\* with a mermaidBlockCount of at least 1 and never as mermaid, so a second run
\* of the pipeline on it passes the flag false and wraps no second fence.
C27_WrappedIsMixed ==
    (pc = "document" /\ isRaw) =>
        /\ detectContentType(result.output).type = "mixed"
        /\ detectContentType(result.output).mermaidBlockCount >= 1
        /\ ~detectContentType(result.output).wasAutoWrapped
        /\ EntriesOf(fixMermaidInDocument(result.output,
                    detectContentType(result.output).type = "mermaid").fixes,
                    "Auto-wrapped raw Mermaid in mermaid code fence") = <<>>

\* a bare diagram was wrapped: classified alone it is mermaid, wrapped it is mixed
C27_Witness ==
    /\ pc = "document" /\ isRaw
    /\ detectContentType(source).type = "mermaid"
    /\ detectContentType(result.output).type = "mixed"
    /\ detectContentType(result.output).mermaidBlockCount = 1

-----------------------------------------------------------------------------
(* The bare diagram with prose in it, checked under SpecShell *)

\* the text of the editor is mixed by its first line alone: it holds no fence
\* that containsMermaidBlocks accepts
MixedByFirstLine ==
    /\ detection.type = "mixed"
    /\ looksLikeMermaid(markdownText)
    /\ ~containsMermaidBlocks(trim(markdownText))

-----------------------------------------------------------------------------
(* The debounced parse, checked under SpecShellFair *)

\* C29: the parse is debounced and the last write wins: every change of
\* processedText clears the timer that waits and sets a new one, so at most
\* one timer waits at any time; the timer that runs hands marked.parse the
\* processedText of the last render, never an older one; and once the edits
\* stop, the text parsed is in the end the processedText of the last edit.
C29_Debounce ==
    /\ [](Cardinality(timers) <= 1)
    /\ [][result.output' # result.output => timers' = {result.output'}]_vars
    /\ [][TimerFires => parsed' = result.output]_vars
    /\ (<>[][TimerFires]_vars) => <>[](timers = {} /\ parsed = result.output)

\* the text was edited twice while the first timer waited, the last timer has
\* run and the renderer holds the processedText of the last edit
C29_Witness ==
    /\ timers = {}
    /\ markdownText # sampleMarkdown
    /\ result.output # sampleMarkdown
    /\ parsed = result.output
    /\ result.fixes # <<>>

-----------------------------------------------------------------------------
(* The lexical conditions of the merge rules, checked under SpecMerge *)

\* the lines that begin with commit or merge and a space or a tab behind it
SpacedHeads(text) ==
    {p \in 1..Len(text) :
        \E w \in {<<"c", "o", "m", "m", "i", "t">>, <<"m", "e", "r", "g", "e">>} :
            /\ LineOf(text, p, w)
            /\ \E q \in p..(Len(text) - Len(w)) :
                   /\ SubSeq(text, q, q + Len(w) - 1) = w
                   /\ \A j \in p..(q - 1) : text[j] \in {" ", "\t"}
                   /\ text[q + Len(w)] \in {" ", "\t"}}

\* C30: the merge rules of fixMermaidCode fire only when the clause line is
\* indented by a space or a tab and the commit or merge keyword is followed by
\* a space or a tab: with no indented clause line, or with bare keyword lines
\* only, the text is left unchanged and no merge is reported.
C30_MergeConditions ==
    (/\ pc = "fixed"
     /\ \/ TagLines(Visible(source)) \cup TypeLines(Visible(source)) = {}
        \/ SpacedHeads(Visible(source)) = {}) =>
        /\ MergeEntries(result.fixes) = <<>>
        /\ result.output = BeforeTags(source)

\* an indented type clause stands on the line after a bare commit, and a tag
\* clause without indentation on the line after it: nothing is merged
C30_Witness ==
    /\ pc = "fixed"
    /\ source = <<"c", "o", "m", "m", "i", "t", "\n",
                  "\t", "t", "y", "p", "e", ":", " ", "X", "\n",
                  "t", "a", "g", ":", " ", "\"", "v", "\"", "\n">>
    /\ ClauseAfter(source) # {}
    /\ result.output = source
    /\ result.fixes = <<>>

=============================================================================
